---- MODULE Spec2Model ----
(***************************************************************************)
(* Model of the sandhi-reversal search of src/sandhi-parser.py:            *)
(* ImprovedSandhiReverser.reverse_sandhi, _find_splits, the eleven rule    *)
(* functions and _has_valid_continuation.                                  *)
(*                                                                         *)
(* A text is a sequence of characters; a character is a one-symbol string. *)
(* The source writes IAST letters as single precomposed code points; they  *)
(* are spelled here in ASCII (Harvard-Kyoto):                              *)
(*   A = a-macron   I = i-macron   U = u-macron   R = r-underdot           *)
(*   RR = r-underdot-macron   L = l-underdot   LL = l-underdot-macron      *)
(*   E = e-macron   O = o-macron   H = h-underdot (visarga)                *)
(*   M = m-underdot   G = n-overdot   N = n-underdot   D = d-underdot      *)
(*   T = t-underdot   z = s-acute   S = s-underdot   beta = Greek beta     *)
(* and "'" is the apostrophe (avagraha), " " the space.                    *)
(***************************************************************************)
EXTENDS Integers, Sequences, FiniteSets, TLC

VARIABLES lexicon, faulty, memo, pc, line, room, stack, found, result, again,
          hypotheses

vars ==
    <<lexicon, faulty, memo, pc, line, room, stack, found, result, again,
      hypotheses>>

(***************************************************************************)
(* Bounds of the model.                                                    *)
(***************************************************************************)
MaxLen == 3
MaxLex == 2
MaxRuleLen == 3

(***************************************************************************)
(* Python string helpers (0-based positions, as in the source).            *)
(***************************************************************************)
Min(a, b) == IF a < b THEN a ELSE b
Max(a, b) == IF a > b THEN a ELSE b

\* text[i:j]
Slice(text, i, j) == SubSeq(text, i + 1, Min(j, Len(text)))
\* text[:j]
Upto(text, j) == Slice(text, 0, j)
\* text[i:]
From(text, i) == Slice(text, i, Len(text))
\* text[i]
At(text, i) == text[i + 1]
\* word.startswith(prefix)
StartsWith(word, prefix) ==
    /\ Len(prefix) <= Len(word)
    /\ SubSeq(word, 1, Len(prefix)) = prefix
\* the positions at which pat occurs in text
Occurrences(text, pat) ==
    {i \in 0..(Len(text) - Len(pat)) : Slice(text, i, i + Len(pat)) = pat}
\* the least element of a set of positions, -1 if there is none
FirstOf(positions) ==
    IF positions = {} THEN -1
    ELSE CHOOSE i \in positions : \A j \in positions : i <= j
\* text.find(pat)
Find(text, pat) == FirstOf(Occurrences(text, pat))

RECURSIVE Flatten(_)
\* the concatenation of a sequence of sequences
Flatten(ss) == IF ss = <<>> THEN <<>> ELSE Head(ss) \o Flatten(Tail(ss))

\* [f(i) for i in range(lo, hi)], each f(i) a list, chained
RangeSeq(lo, hi) == [k \in 1..Max(0, hi - lo) |-> lo + k - 1]

\* the elements of a sequence
Elems(s) == {s[i] : i \in 1..Len(s)}

(***************************************************************************)
(* Character classes of __init__.                                          *)
(***************************************************************************)
vowels ==
    {"a", "A", "i", "I", "u", "U", "R", "RR", "L", "LL", "e", "E", "o", "O", " "}
short_vowels == {"a", "i", "u", "R", "L"}
long_vowels == {"A", "I", "U", "RR", "LL"}
voiced_consonants ==
    {"g", "h", "D", "d", "b", "beta", "j", "y", "r", "l", "v", "M", "G", "N",
     "n", "m"}
unvoiced_consonants == {"k", "h", "T", "t", "p", "j", "z", "S", "s"}

(***************************************************************************)
(* _has_valid_continuation                                                 *)
(***************************************************************************)
HasValidContinuation(remainder) ==
    \/ remainder = <<>>
    \/ \E length \in 1..(Min(Len(remainder) + 1, 10) - 1) :
           \E word \in lexicon : StartsWith(word, Upto(remainder, length))

(***************************************************************************)
(* The rule functions.  Each returns the list of (first_word, remainder)   *)
(* pairs the source's function returns, in the order it appends them.      *)
(***************************************************************************)
Hyp(word1, remainder) == <<word1, remainder>>

\* Pattern: o' -> aH + a
AvagrahaO(text) ==
    LET pos == Find(text, <<"o", "'">>)
    IN  IF pos > 0
        THEN << Hyp(Upto(text, pos) \o <<"a", "H">>,
                    <<"a">> \o From(text, pos + 2)) >>
        ELSE <<>>

\* an elision undone without putting the elided a back
AvagrahaDrop(text, v) ==
    LET pos == Find(text, <<v, "'">>)
    IN  IF pos >= 0
        THEN << Hyp(Upto(text, pos + 1), From(text, pos + 2)) >>
        ELSE <<>>

\* Pattern: e' -> e + a, and a' -> a + a: the vowel v is kept
AvagrahaKeep(text, v) ==
    LET pos == Find(text, <<v, "'">>)
    IN  IF pos >= 0
        THEN << Hyp(Upto(text, pos + 1), <<"a">> \o From(text, pos + 2)) >>
        ELSE <<>>

_reverse_avagraha_patterns(text) ==
    AvagrahaO(text) \o AvagrahaKeep(text, "e") \o AvagrahaKeep(text, "a")

\* one vrddhi pattern: a + second found at pos > 0, remainder restarted
\* with each of starts in turn
VrddhiPattern(text, second, starts) ==
    LET pos == Find(text, <<"a", second>>)
        word1 == Upto(text, pos) \o <<"a">>
        remainder_base == From(text, pos + 2)
        One(start_vowel) ==
            IF HasValidContinuation(start_vowel \o remainder_base)
            THEN << Hyp(word1, start_vowel \o remainder_base) >>
            ELSE <<>>
    IN  IF pos > 0
        THEN Flatten([k \in 1..Len(starts) |-> One(starts[k])])
        ELSE <<>>

_reverse_vrddhi_sandhi(text) ==
    VrddhiPattern(text, "i", << <<"i">>, <<"e">>, <<"a", "i">> >>)
    \o VrddhiPattern(text, "u", << <<"u">>, <<"o">>, <<"a", "u">> >>)

GunaPattern(text, fused, start_vowel) ==
    LET pos == Find(text, <<fused>>)
        word1 == Upto(text, pos) \o <<"a">>
        remainder == <<start_vowel>> \o From(text, pos + 1)
    IN  IF pos > 0 /\ HasValidContinuation(remainder)
        THEN << Hyp(word1, remainder) >>
        ELSE <<>>

_reverse_guna_sandhi(text) ==
    GunaPattern(text, "e", "i") \o GunaPattern(text, "o", "u")

\* a dirgha hypothesis made without asking the lexicon
DirghaSplitUnchecked(text, short_vowel, split_pos) ==
    IF split_pos > 0 /\ split_pos < Len(text)
    THEN << Hyp(Upto(text, split_pos - 1) \o <<short_vowel>>,
                <<short_vowel>> \o From(text, split_pos)) >>
    ELSE <<>>

\* the dirgha hypothesis of one mapping at one split_pos
DirghaSplitAt(text, short_vowel, split_pos) ==
    LET word1 == Upto(text, split_pos - 1) \o <<short_vowel>>
        remainder == <<short_vowel>> \o From(text, split_pos)
    IN  IF split_pos > 0 /\ split_pos < Len(text) /\ word1 \in lexicon
        THEN << Hyp(word1, remainder) >>
        ELSE <<>>

DirghaMapping(text, long_vowel, short_vowel) ==
    LET pos == Find(text, <<long_vowel>>)
        range == RangeSeq(Max(0, pos - 3), Min(Len(text), pos + 4))
    IN  IF pos > 0
        THEN Flatten([k \in 1..Len(range) |->
                         DirghaSplitAt(text, short_vowel, range[k])])
        ELSE <<>>

_reverse_dirgha_sandhi(text) ==
    DirghaMapping(text, "A", "a") \o DirghaMapping(text, "I", "i")
    \o DirghaMapping(text, "U", "u") \o DirghaMapping(text, "RR", "R")
    \o DirghaMapping(text, "LL", "L")

\* a yan hypothesis whose remainder starts again with the restored vowel
YanAtRestarting(text, semivowel, vowel, i) ==
    IF /\ At(text, i) = semivowel
       /\ i > 0
       /\ i < Len(text) - 1
       /\ At(text, i + 1) \in vowels
       /\ Upto(text, i) \o <<vowel>> \in lexicon
    THEN << Hyp(Upto(text, i) \o <<vowel>>, <<vowel>> \o From(text, i + 1)) >>
    ELSE <<>>

\* the yan hypotheses for one semivowel
YanAt(text, semivowel, vowel, i) ==
    LET word1 == Upto(text, i) \o <<vowel>>
    IN  IF /\ At(text, i) = semivowel
           /\ i > 0
           /\ i < Len(text) - 1
           /\ At(text, i + 1) \in vowels
           /\ word1 \in lexicon
        THEN << Hyp(word1, From(text, i + 1)) >>
        ELSE <<>>

YanLoop(text, semivowel, vowel) ==
    Flatten([k \in 1..Len(text) |-> YanAt(text, semivowel, vowel, k - 1)])

_reverse_yan_sandhi(text) ==
    YanLoop(text, "y", "i") \o YanLoop(text, "v", "u")

VisargaRAt(text, i) ==
    LET word1 == Upto(text, i) \o <<"H">>
    IN  IF /\ At(text, i) = "r"
           /\ i > 0
           /\ i < Len(text) - 1
           /\ At(text, i + 1) \in voiced_consonants
           /\ At(text, i - 1) \in {"a", "i", "u", "R"}
           /\ word1 \in lexicon
        THEN << Hyp(word1, From(text, i + 1)) >>
        ELSE <<>>

VisargaDeletedAt(text, i) ==
    LET word1 == Upto(text, i + 1) \o <<"H">>
    IN  IF /\ At(text, i) \in vowels
           /\ At(text, i + 1) \in voiced_consonants
           /\ word1 \in lexicon
        THEN << Hyp(word1, From(text, i + 1)) >>
        ELSE <<>>

_reverse_visarga_before_voiced(text) ==
    Flatten([k \in 1..Len(text) |-> VisargaRAt(text, k - 1)])
    \o Flatten([k \in 1..Max(0, Len(text) - 1) |->
                   VisargaDeletedAt(text, k - 1)])

VisargaSibilantAt(text, sibilant, i) ==
    LET word1 == Upto(text, i) \o <<"H">>
    IN  IF At(text, i) = sibilant /\ i > 0 /\ word1 \in lexicon
        THEN << Hyp(word1, From(text, i)) >>
        ELSE <<>>

VisargaSibilant(text, sibilant) ==
    Flatten([k \in 1..Len(text) |-> VisargaSibilantAt(text, sibilant, k - 1)])

_reverse_visarga_before_unvoiced(text) ==
    VisargaSibilant(text, "s") \o VisargaSibilant(text, "z")
    \o VisargaSibilant(text, "S")

_reverse_visarga_special(text) == <<>>

ClusterDouble(text, c) ==
    LET pos == Find(text, <<c, c>>)
        word1 == Upto(text, pos + 1)
    IN  IF pos > 0 /\ word1 \in lexicon
        THEN << Hyp(word1, From(text, pos + 1)) >>
        ELSE <<>>

_reverse_consonant_clusters(text) ==
    ClusterDouble(text, "t") \o ClusterDouble(text, "k")
    \o ClusterDouble(text, "p") \o ClusterDouble(text, "c")
    \o ClusterDouble(text, "T")

_reverse_nasal_assimilation(text) == <<>>

_reverse_final_vowel_changes(text) == <<>>

\* self.sandhi_rules, by position in the list
NumRules == 11

sandhi_rules(k, text) ==
    CASE k = 1 -> _reverse_avagraha_patterns(text)
      [] k = 2 -> _reverse_vrddhi_sandhi(text)
      [] k = 3 -> _reverse_guna_sandhi(text)
      [] k = 4 -> _reverse_dirgha_sandhi(text)
      [] k = 5 -> _reverse_yan_sandhi(text)
      [] k = 6 -> _reverse_visarga_before_voiced(text)
      [] k = 7 -> _reverse_visarga_before_unvoiced(text)
      [] k = 8 -> _reverse_visarga_special(text)
      [] k = 9 -> _reverse_consonant_clusters(text)
      [] k = 10 -> _reverse_nasal_assimilation(text)
      [] OTHER -> _reverse_final_vowel_changes(text)

(***************************************************************************)
(* Inputs.  A lexicon is a set of at most MaxLex words of WordPool, or one *)
(* of ExtraLexicons; its words are not empty and have no space in them,    *)
(* as the tokens between the bars of a padapatha line.  A line is any      *)
(* string of at most MaxLen characters of Alphabet, or one of ExtraLines   *)
(* (lines with spaces, lines with an avagraha).                            *)
(***************************************************************************)
Alphabet == {"a", "A", "b"}

WordPool ==
    { <<"a">>, <<"A">>, <<"b">>, <<"e">>, <<"a", "b">>, <<"b", "a">>,
      <<"a", "A">> }

\* a lexicon with a word and both its halves; a lexicon with a word that
\* ends in e and a word that begins with a; a lexicon with a word that
\* ends in t and a word that begins with t
ExtraLexicons ==
    { {<<"a">>, <<"b">>, <<"a", "b">>}, {<<"b", "e">>, <<"a", "b">>},
      {<<"a", "t">>, <<"t", "a">>} }

Lexicons ==
    {L \in SUBSET WordPool : Cardinality(L) <= MaxLex} \cup ExtraLexicons

\* The texts and lexicons a rule function is called on by itself: every
\* string of at most MaxRuleLen characters of RuleAlphabet, which has the
\* characters each family of rules looks for; the empty lexicon and the
\* lexicons of one word of RulePool.
RuleAlphabet == {"a", "A", "e", "'", "i", "y", "s", "t"}

RuleTexts == UNION {[1..n -> RuleAlphabet] : n \in 0..MaxRuleLen}

RulePool ==
    { <<"a">>, <<"i">>, <<"e">>, <<"a", "a">>, <<"a", "i">>, <<"a", "H">>,
      <<"a", "t">> }

RuleLexicons == {{}} \cup {{w} : w \in RulePool}

\* Lines with the patterns the rule functions look for: o', e', a', ai, au,
\* e, o, long vowels, y and v before a vowel, r before a voiced consonant,
\* a vowel before a voiced consonant, sibilants, doubled consonants.
TriggerLines ==
    RuleTexts \cup
    { <<"b", "o", "'", "b">>, <<"e", "'", "b">>, <<"a", "'", "a">>,
      <<"b", "a", "i", "b">>, <<"b", "a", "u", "b">>, <<"b", "e", "b">>,
      <<"b", "o", "b">>, <<"b", "A", "b">>, <<"b", "I">>, <<"b", "U", "b">>,
      <<"b", "RR">>, <<"a", "y", "a">>, <<"a", "v", "a">>,
      <<"a", "r", "g", "a">>, <<"a", "g", "a">>, <<"a", "s", "a">>,
      <<"a", "z", "a">>, <<"a", "S", "a">>, <<"a", "t", "t", "a">>,
      <<"a", "k", "k", "a">>, <<"a", "p", "p", "a">>, <<"a", " ", "r", "g">> }

ExtraLines ==
    { <<" ">>, <<" ", " ">>, <<"a", " ", "b">>, <<" ", "a", "A", " ">>,
      <<"b", " ", " ", "A">>, <<"a", "'">>, <<"e", "'">>,
      <<"b", "a", "'", "b">>, <<"e", " ", "'", "A">>,
      <<"b", "e", "'", "b">>, <<"a", "t", "t", "a">> }

Lines == UNION {[1..n -> Alphabet] : n \in 0..MaxLen} \cup ExtraLines

\* The longest line
MaxLineLen == Max(MaxLen, 4)

\* The callers of the one reverser instance; those of the sequential runs.
Procs == {1, 2}
SeqProcs == {1}

(***************************************************************************)
(* The interpreter's stack.  room is the number of Python frames that may  *)
(* still be entered below the frame of reverse_sandhi before the           *)
(* interpreter raises RecursionError (sys.getrecursionlimit() minus the    *)
(* depth reverse_sandhi was called at): it belongs to the caller, not to   *)
(* the reverser.  Every choice leaves room for the frames a search that    *)
(* shortens its text at every call can need on the longest line            *)
(* (_find_splits, rule function, _has_valid_continuation and its generator *)
(* expression).                                                            *)
(***************************************************************************)
RoomChoices == {MaxLineLen + 3, MaxLineLen + 4}

(***************************************************************************)
(* reverse_sandhi: return values and normalisation.                        *)
(***************************************************************************)
None == [isNone |-> TRUE, value |-> <<>>]
Split(words) == [isNone |-> FALSE, value |-> words]

\* a removal of spaces that removes none
KeepSpaces(l) == l

RECURSIVE RemoveSpaces(_)
\* samhita_line.replace(' ', '')
RemoveSpaces(l) ==
    IF l = <<>> THEN <<>>
    ELSE IF Head(l) = " " THEN RemoveSpaces(Tail(l))
    ELSE <<Head(l)>> \o RemoveSpaces(Tail(l))

\* str.strip(): without the leading and trailing spaces
Strip(l) ==
    LET kept == {i \in 1..Len(l) : l[i] # " "}
    IN  IF kept = {} THEN <<>>
        ELSE SubSeq(l, CHOOSE i \in kept : \A j \in kept : i <= j,
                       CHOOSE i \in kept : \A j \in kept : i >= j)

\* a line taken as it is
Unstripped(l) == l

\* samhita_line.replace(' ', '').strip()
Normalize(l) == Strip(RemoveSpaces(l))

\* a choice of the last split of the list
PickLast(results) ==
    IF results = <<>> THEN None ELSE Split(results[Len(results)])

\* results[0] if results else None
PickResult(results) == IF results # <<>> THEN Split(Head(results)) ELSE None

(***************************************************************************)
(* The memo.                                                               *)
(***************************************************************************)
EmptyMemo == <<>>

\* self.memo = {}
ResetMemo(m) == EmptyMemo

\* text in self.memo
MemoHas(m, text) == text \in DOMAIN m

\* self.memo[text] = all_splits
MemoStore(m, text, all_splits) == (text :> all_splits) @@ m

(***************************************************************************)
(* _find_splits, one activation per stack frame.  A frame holds the text,  *)
(* all_splits and todo, the pairs its loops have still to go through: the  *)
(* (first_word, remainder) pairs the rule functions return, in the order   *)
(* of self.sandhi_rules, then the pairs of the prefix loop.  Each pair     *)
(* carries its place k in the loops: 1..NumRules for a rule, PrefixLoop    *)
(* for the prefix loop.  The head of todo is the pair the frame is at.     *)
(***************************************************************************)
PrefixCap == 15
PrefixLoop == NumRules + 1

\* the (prefix, suffix) pairs the prefix loop recurses on, in order
PrefixAt(text, i) ==
    IF Upto(text, i) \in lexicon
    THEN << Hyp(Upto(text, i), From(text, i)) >>
    ELSE <<>>

\* a prefix loop that stops one prefix earlier than the code's
PrefixesStoppingEarly(text) ==
    Flatten([n \in 1..(Min(Len(text), PrefixCap) - 2) |-> PrefixAt(text, n)])

\* for i in range(1, min(len(text), 15)): the pairs of the prefix loop
Prefixes(text) ==
    Flatten([n \in 1..(Min(Len(text), PrefixCap) - 1) |-> PrefixAt(text, n)])

\* the pairs place k iterates over
Pairs(k, text) ==
    IF k = PrefixLoop THEN Prefixes(text) ELSE sandhi_rules(k, text)

\* all_splits = [] and the direct lexicon match
\* a search that does not try the direct match
NoWholeMatch(text) == <<>>

\* a direct match taken without asking the lexicon
WholeMatchAlways(text) == << <<text>> >>

WholeMatch(text) == IF text \in lexicon THEN << <<text>> >> ELSE <<>>

\* all_splits.append([first_word] + rest_split) for each rest_split
PrependOrAlone(first_word, rest_splits) ==
    IF rest_splits = <<>> THEN << <<first_word>> >>
    ELSE [n \in 1..Len(rest_splits) |-> <<first_word>> \o rest_splits[n]]

Prepend(first_word, rest_splits) ==
    [n \in 1..Len(rest_splits) |-> <<first_word>> \o rest_splits[n]]

\* rule k calls _has_valid_continuation, which runs a generator expression
CallsContinuation(k, text) ==
    \/ k = 2 /\ (Find(text, <<"a", "i">>) > 0 \/ Find(text, <<"a", "u">>) > 0)
    \/ k = 3 /\ (Find(text, <<"e">>) > 0 \/ Find(text, <<"o">>) > 0)

(***************************************************************************)
(* The circumstances e of a search: e.room, the frames of room; e.faulty,  *)
(* the rule function that raises whenever it is called (0: none);          *)
(* e.silent, a rule function replaced by one that returns no pair (0:      *)
(* none); e.cached = FALSE, the memo disabled (no lookup, no store).       *)
(***************************************************************************)
\* rule_func(text) raises, called from the frame at depth d: the rule is
\* the faulty one, or the call exhausts the stack
RuleRaises(k, text, d, e) ==
    /\ k <= NumRules
    /\ \/ k = e.faulty
       \/ d + 1 > e.room
       \/ CallsContinuation(k, text) /\ d + 3 > e.room

\* a handler that gives up the rest of the search of its frame
AbandonAfterRaise(k) == PrefixLoop + 1

\* except Exception: continue  -- the place the loops go on at when the
\* try of rule k has caught an exception
AfterRaise(k) == k + 1

\* the loops get to place k: no rule before it that raises leads past it
Reaches(text, k, d, e) ==
    \A r \in 1..(k - 1) : RuleRaises(r, text, d, e) => AfterRaise(r) <= k

\* the pairs of place k, each with k
Tagged(k, pairs) ==
    [n \in 1..Len(pairs) |->
        [k |-> k, first_word |-> pairs[n][1], remainder |-> pairs[n][2]]]

\* the pairs the loops of _find_splits(text), entered at depth d, go through
Items(text, d, e) ==
    Flatten([k \in 1..PrefixLoop |->
        IF Reaches(text, k, d, e) /\ ~RuleRaises(k, text, d, e) /\ k # e.silent
        THEN Tagged(k, Pairs(k, text))
        ELSE <<>>])

\* the frame of a call _find_splits(text) entered at depth d
NewFrame(text, d, e) ==
    [text |-> text, todo |-> Items(text, d, e),
     all_splits |-> WholeMatch(text)]

\* a filter that lets every first word through
AcceptsAny(first_word) == TRUE

\* if first_word in self.lexicon
Accepts(first_word) == first_word \in lexicon

\* the pairs left to a frame whose rule loop caught an exception at place k
AfterCatch(todo, k) == SelectSeq(todo, LAMBDA it : it.k >= AfterRaise(k))

ReplaceTop(stk, frame) == [stk EXCEPT ![Len(stk)] = frame]
Pop(stk) == SubSeq(stk, 1, Len(stk) - 1)

\* the last frame of stk whose pending call is made inside a try, as a
\* negative index; 1 if there is none
Catcher(stk) ==
    FirstOf({0 - i : i \in {n \in 1..Len(stk) : Head(stk[n].todo).k # PrefixLoop}}
            \cup {1})

\* The frames left when the call the top frame is making raises: the try
\* of a rule loop catches the exception, a prefix loop lets it through.
UnwindTo(stk, i) ==
    IF i = 1 THEN <<>>
    ELSE ReplaceTop(SubSeq(stk, 1, 0 - i),
             [stk[0 - i] EXCEPT
                 !.todo = AfterCatch(stk[0 - i].todo, Head(stk[0 - i].todo).k)])

Unwind(stk) == UnwindTo(stk, Catcher(stk))

\* the value a call made by the top frame returned: extend all_splits, go on
Deliver(stk, rest_splits) ==
    ReplaceTop(stk,
        [all_splits |-> stk[Len(stk)].all_splits
                          \o Prepend(Head(stk[Len(stk)].todo).first_word,
                                     rest_splits),
         todo |-> Tail(stk[Len(stk)].todo),
         text |-> stk[Len(stk)].text])

\* the top frame goes past a pair whose first word is not in the lexicon
Skip(stk) == ReplaceTop(stk, [stk[Len(stk)] EXCEPT !.todo = Tail(@)])

\* what _find_splits(text) returns without running its loops:
\* if not text: return [[]]; if text in self.memo: return self.memo[text]
Immediate(m, text) == IF text = <<>> THEN << <<>> >> ELSE m[text]

\* _find_splits(text) returns without running its loops
IsImmediate(m, text, e) == text = <<>> \/ (e.cached /\ MemoHas(m, text))

(***************************************************************************)
(* One step of the search in configuration c = [memo, stack, status,       *)
(* found] under e.  StepKind names the step.                               *)
(***************************************************************************)
KindOf(c, e, d, top) ==
    IF top.todo = <<>> THEN (IF d = 1 THEN "return" ELSE "ascend")
    ELSE IF ~Accepts(Head(top.todo).first_word) THEN "extend"
    ELSE IF d + 1 > e.room THEN "raise"
    ELSE IF IsImmediate(c.memo, Head(top.todo).remainder, e) THEN "extend"
    ELSE "descend"

StepKind(c, e) == KindOf(c, e, Len(c.stack), c.stack[Len(c.stack)])

\* self.memo[text] = all_splits; return all_splits
Leave(c, d, top, stored) ==
    IF d = 1
    THEN [memo |-> stored, stack |-> <<>>, status |-> "done",
          found |-> top.all_splits]
    ELSE [c EXCEPT !.memo = stored,
                   !.stack = Deliver(Pop(c.stack), top.all_splits)]

\* the call of _find_splits raises RecursionError
Raise(c, after) ==
    IF after = <<>>
    THEN [c EXCEPT !.stack = <<>>, !.status = "raised"]
    ELSE [c EXCEPT !.stack = after]

MicroAt(c, e, d, top) ==
    IF top.todo = <<>>
    THEN Leave(c, d, top,
               IF e.cached THEN MemoStore(c.memo, top.text, top.all_splits)
               ELSE c.memo)
    ELSE IF ~Accepts(Head(top.todo).first_word)
    THEN [c EXCEPT !.stack = Skip(c.stack)]
    ELSE IF d + 1 > e.room
    THEN Raise(c, Unwind(c.stack))
    ELSE IF IsImmediate(c.memo, Head(top.todo).remainder, e)
    THEN [c EXCEPT !.stack =
             Deliver(c.stack, Immediate(c.memo, Head(top.todo).remainder))]
    ELSE [c EXCEPT !.stack =
             Append(c.stack, NewFrame(Head(top.todo).remainder, d + 1, e))]

Micro(c, e) == MicroAt(c, e, Len(c.stack), c.stack[Len(c.stack)])

RECURSIVE Run(_, _)
\* the search run to its end
Run(c, e) == IF c.status # "run" THEN c ELSE Run(Micro(c, e), e)

\* the configuration in which _find_splits(text) is entered from
\* reverse_sandhi
StartConfig(m, text, e) ==
    [memo |-> m, stack |-> << NewFrame(text, 1, e) >>, status |-> "run",
     found |-> <<>>]

(***************************************************************************)
(* The state machine.  again[p] is history: the value the call before      *)
(* returned to caller p, when that call was on the same line.              *)
(***************************************************************************)
NoCall == [seen |-> FALSE, result |-> None]
Before(r) == [seen |-> TRUE, result |-> r]

\* no rule function has been called by itself
NoRule == [rule |-> 0, text |-> <<>>, called |-> FALSE, pairs |-> <<>>]

\* the reverser as __init__ leaves it, no call made yet
Constructed ==
    /\ memo = EmptyMemo
    /\ pc = [p \in Procs |-> "idle"]
    /\ line = [p \in Procs |-> <<>>]
    /\ room = [p \in Procs |-> 0]
    /\ stack = [p \in Procs |-> <<>>]
    /\ found = [p \in Procs |-> <<>>]
    /\ result = [p \in Procs |-> None]
    /\ again = [p \in Procs |-> NoCall]
    /\ hypotheses = NoRule

Init ==
    /\ lexicon \in Lexicons
    /\ faulty = 0
    /\ Constructed

\* the circumstances of the search of caller p
Env(p) == [room |-> room[p], cached |-> TRUE, faulty |-> faulty, silent |-> 0]

\* reverse_sandhi(samhita_line) is called with rm frames of room: it
\* resets the memo and returns [] at once, or is about to call _find_splits
Call(p, samhita_line, rm) ==
    /\ pc[p] \notin {"call", "run"}
    /\ line' = [line EXCEPT ![p] = samhita_line]
    /\ room' = [room EXCEPT ![p] = rm]
    /\ memo' = ResetMemo(memo)
    /\ found' = [found EXCEPT ![p] = <<>>]
    /\ stack' = [stack EXCEPT ![p] = <<>>]
    /\ again' = [again EXCEPT ![p] =
                    IF pc[p] = "done" /\ line[p] = samhita_line
                    THEN Before(result[p]) ELSE NoCall]
    /\ IF Normalize(samhita_line) = <<>>
       THEN /\ pc' = [pc EXCEPT ![p] = "done"]
            /\ result' = [result EXCEPT ![p] = Split(<<>>)]
       ELSE /\ pc' = [pc EXCEPT ![p] = "call"]
            /\ result' = [result EXCEPT ![p] = None]
    /\ UNCHANGED <<lexicon, faulty, hypotheses>>

\* the space-stripped line of caller p
Text(p) == Normalize(line[p])

\* results = self._find_splits(text) is entered
Enter(p) ==
    /\ pc[p] = "call"
    /\ pc' = [pc EXCEPT ![p] = "run"]
    /\ stack' = [stack EXCEPT ![p] = StartConfig(memo, Text(p), Env(p)).stack]
    /\ UNCHANGED <<lexicon, faulty, memo, line, room, found, result, again,
                   hypotheses>>

\* _find_splits('') is called by itself: the base case
FindSplitsEmpty(p) ==
    /\ pc[p] \notin {"call", "run"}
    /\ pc' = [pc EXCEPT ![p] = "found"]
    /\ line' = [line EXCEPT ![p] = <<>>]
    /\ found' = [found EXCEPT ![p] = Immediate(memo, <<>>)]
    /\ result' = [result EXCEPT ![p] = None]
    /\ again' = [again EXCEPT ![p] = NoCall]
    /\ UNCHANGED <<lexicon, faulty, memo, room, stack, hypotheses>>

\* the search of caller p as a configuration
Config(p) ==
    [memo |-> memo, stack |-> stack[p], status |-> "run", found |-> <<>>]

\* the search of caller p takes the step it is at
Step(p) ==
    \E n \in {Micro(Config(p), Env(p))} :
        /\ memo' = n.memo
        /\ stack' = [stack EXCEPT ![p] = n.stack]
        /\ pc' = [pc EXCEPT ![p] = n.status]
        /\ found' = [found EXCEPT ![p] = n.found]
        /\ result' = [result EXCEPT ![p] =
              IF n.status = "done" THEN PickResult(n.found) ELSE None]
        /\ UNCHANGED <<lexicon, faulty, line, room, again, hypotheses>>

\* a pair is dealt with on the spot: its first word is not in the lexicon,
\* or its remainder is in the memo
Extend(p) ==
    /\ pc[p] = "run"
    /\ StepKind(Config(p), Env(p)) = "extend"
    /\ Step(p)

\* a recursive call on a remainder is entered
Descend(p) ==
    /\ pc[p] = "run"
    /\ StepKind(Config(p), Env(p)) = "descend"
    /\ Step(p)

\* a recursive call stores its splits in the memo and returns them
Ascend(p) ==
    /\ pc[p] = "run"
    /\ StepKind(Config(p), Env(p)) = "ascend"
    /\ Step(p)

\* a call exhausts the stack: the try of a rule loop catches the
\* RecursionError, or none does and it leaves reverse_sandhi
Recover(p) ==
    /\ pc[p] = "run"
    /\ StepKind(Config(p), Env(p)) = "raise"
    /\ Step(p)

\* the outermost _find_splits returns and reverse_sandhi picks its result
Return(p) ==
    /\ pc[p] = "run"
    /\ StepKind(Config(p), Env(p)) = "return"
    /\ Step(p)

Next ==
    \E p \in SeqProcs :
        \/ \E l \in Lines, rm \in RoomChoices : Call(p, l, rm)
        \/ Enter(p)
        \/ FindSplitsEmpty(p)
        \/ Extend(p)
        \/ Descend(p)
        \/ Ascend(p)
        \/ Recover(p)
        \/ Return(p)

Spec == Init /\ [][Next]_vars

(***************************************************************************)
(* The reverser with a rule function that raises: one of FaultyRules       *)
(* raises an Exception whenever it is called.                              *)
(***************************************************************************)
\* the first rule of the list, the dirgha rule, the last rule
FaultyRules == {1, 4, NumRules}

InitFaulty ==
    /\ lexicon \in Lexicons
    /\ faulty \in FaultyRules
    /\ Constructed

SpecFaulty == InitFaulty /\ [][Next]_vars

(***************************************************************************)
(* The reverser with the empty lexicon, called once on a line of           *)
(* TriggerLines.  No hypothesis passes the lexicon test, so the search     *)
(* never calls itself.                                                     *)
(***************************************************************************)
InitEmpty ==
    /\ lexicon = {}
    /\ faulty = 0
    /\ Constructed

\* the first call on the reverser, on a line of TriggerLines
CallTrigger(p) ==
    /\ pc[p] = "idle"
    /\ \E l \in TriggerLines, rm \in RoomChoices : Call(p, l, rm)

NextEmpty ==
    \E p \in SeqProcs :
        \/ CallTrigger(p)
        \/ Enter(p)
        \/ Extend(p)
        \/ Return(p)

SpecEmpty == InitEmpty /\ [][NextEmpty]_vars

(***************************************************************************)
(* The prefix loop at its cap.  for i in range(1, min(len(text), 15))      *)
(* tries the prefixes of 1 to min(len(text), 15) - 1 characters.  The      *)
(* lexicons hold the word 'a' and a word of PrefixCap - 2 to PrefixCap + 1 *)
(* times 'b', the lines are such a word followed by 'a' or by "a'": no call  *)
(* on them goes deeper than the third frame,  so the room of RoomChoices   *)
(* is more than they need.                                                 *)
(***************************************************************************)
Bs(n) == [i \in 1..n |-> "b"]

CapLengths == (PrefixCap - 2)..(PrefixCap + 1)

CapLexicons == { {Bs(n), <<"a">>} : n \in CapLengths }

CapLines ==
    { Bs(n) \o <<"a">> : n \in CapLengths } \cup { Bs(n) \o <<"a", "'">> : n \in CapLengths }

InitCap ==
    /\ lexicon \in CapLexicons
    /\ faulty = 0
    /\ Constructed

\* the first call on the reverser, on a line of CapLines
CallCap(p) ==
    /\ pc[p] = "idle"
    /\ \E l \in CapLines, rm \in RoomChoices : Call(p, l, rm)

NextCap ==
    \E p \in SeqProcs :
        \/ CallCap(p)
        \/ Enter(p)
        \/ Extend(p)
        \/ Descend(p)
        \/ Ascend(p)
        \/ Return(p)

SpecCap == InitCap /\ [][NextCap]_vars

(***************************************************************************)
(* Two callers on one reverser.  self.memo belongs to the instance: the    *)
(* reset of one caller's reverse_sandhi replaces the dictionary the other  *)
(* caller's search looks up and stores in.  The callers' steps interleave  *)
(* between the calls the search makes; a memo hit is two reads of          *)
(* self.memo, `text in self.memo` and `self.memo[text]`, and pc "hit" is   *)
(* the place between them: when the other caller resets the memo there,    *)
(* the second read raises KeyError, which the try of a rule loop catches   *)
(* and a prefix loop lets through like any other exception.                *)
(***************************************************************************)
SharedLexicons ==
    { {<<"a">>, <<"b">>, <<"a", "b">>}, {<<"a">>, <<"b", "a">>},
      {<<"a">>, <<"A">>} }

SharedLines ==
    { <<"a", "b">>, <<"a", "b", "a", "b">>, <<"a", "A">>,
      <<"b", "e", "'", "b">> }

SharedRoom == MaxLineLen + 3

InitShared ==
    /\ lexicon \in SharedLexicons
    /\ faulty = 0
    /\ Constructed

\* the call of caller p on the reverser, on a line of SharedLines
CallShared(p) ==
    /\ pc[p] = "idle"
    /\ \E l \in SharedLines : Call(p, l, SharedRoom)

\* the text the search of caller p is about to look up in the memo
Wanted(p) ==
    IF stack[p] = <<>> THEN Text(p)
    ELSE Head(stack[p][Len(stack[p])].todo).remainder

\* the next step of caller p is a memo hit
MemoHit(p) ==
    /\ stack[p][Len(stack[p])].todo # <<>>
    /\ Accepts(Head(stack[p][Len(stack[p])].todo).first_word)
    /\ Len(stack[p]) + 1 <= room[p]
    /\ Wanted(p) # <<>>
    /\ MemoHas(memo, Wanted(p))

\* reverse_sandhi calls _find_splits(text): the text is in the memo the
\* other caller filled, or the loops are entered
EnterShared(p) ==
    /\ pc[p] = "call"
    /\ IF MemoHas(memo, Text(p))
       THEN pc' = [pc EXCEPT ![p] = "hit"] /\ UNCHANGED stack
       ELSE /\ pc' = [pc EXCEPT ![p] = "run"]
            /\ stack' = [stack EXCEPT ![p] =
                            StartConfig(memo, Text(p), Env(p)).stack]
    /\ UNCHANGED <<lexicon, faulty, memo, line, room, found, result, again,
                   hypotheses>>

\* if text in self.memo: the remainder is found in the memo
Check(p) ==
    /\ pc[p] = "run"
    /\ MemoHit(p)
    /\ pc' = [pc EXCEPT ![p] = "hit"]
    /\ UNCHANGED <<lexicon, faulty, memo, line, room, stack, found, result,
                   again, hypotheses>>

\* the configuration after return self.memo[text], or after its KeyError
AfterRead(p) ==
    IF stack[p] = <<>>
    THEN IF MemoHas(memo, Text(p))
         THEN [memo |-> memo, stack |-> <<>>, status |-> "done",
               found |-> memo[Text(p)]]
         ELSE [memo |-> memo, stack |-> <<>>, status |-> "raised",
               found |-> <<>>]
    ELSE IF MemoHas(memo, Wanted(p))
         THEN [Config(p) EXCEPT !.stack = Deliver(stack[p], memo[Wanted(p)])]
         ELSE Raise(Config(p), Unwind(stack[p]))

\* return self.memo[text]
ReadMemo(p) ==
    /\ pc[p] = "hit"
    /\ \E n \in {AfterRead(p)} :
        /\ memo' = n.memo
        /\ stack' = [stack EXCEPT ![p] = n.stack]
        /\ pc' = [pc EXCEPT ![p] = n.status]
        /\ found' = [found EXCEPT ![p] = n.found]
        /\ result' = [result EXCEPT ![p] =
              IF n.status = "done" THEN PickResult(n.found) ELSE None]
    /\ UNCHANGED <<lexicon, faulty, line, room, again, hypotheses>>

\* a pair is passed by: its first word is not in the lexicon, or its
\* remainder is empty
ExtendShared(p) ==
    /\ pc[p] = "run"
    /\ ~MemoHit(p)
    /\ Extend(p)

NextShared ==
    \E p \in Procs :
        \/ CallShared(p)
        \/ EnterShared(p)
        \/ Check(p)
        \/ ReadMemo(p)
        \/ ExtendShared(p)
        \/ Descend(p)
        \/ Ascend(p)
        \/ Recover(p)
        \/ Return(p)

SpecShared == InitShared /\ [][NextShared]_vars

(***************************************************************************)
(* The rule functions called by themselves.                                *)
(***************************************************************************)
\* a rule function about to be called on a text
ToCall(k, text) == [rule |-> k, text |-> text, called |-> FALSE, pairs |-> <<>>]

InitRules ==
    /\ lexicon \in RuleLexicons
    /\ faulty = 0
    /\ memo = EmptyMemo
    /\ pc = [p \in Procs |-> "idle"]
    /\ line = [p \in Procs |-> <<>>]
    /\ room = [p \in Procs |-> 0]
    /\ stack = [p \in Procs |-> <<>>]
    /\ found = [p \in Procs |-> <<>>]
    /\ result = [p \in Procs |-> None]
    /\ again = [p \in Procs |-> NoCall]
    /\ hypotheses \in {ToCall(k, text) : k \in 1..NumRules, text \in RuleTexts}

\* rule_func(text) returns its hypotheses
CallRule ==
    /\ hypotheses.rule \in 1..NumRules
    /\ ~hypotheses.called
    /\ hypotheses' =
           [hypotheses EXCEPT
               !.called = TRUE,
               !.pairs = sandhi_rules(hypotheses.rule, hypotheses.text)]
    /\ UNCHANGED <<lexicon, faulty, memo, pc, line, room, stack, found,
                   result, again>>

NextRules == CallRule

SpecRules == InitRules /\ [][NextRules]_vars

(***************************************************************************)
(* The reverser searching, or one of its rule functions called by itself.  *)
(***************************************************************************)
InitAll == Init \/ InitRules

\* the search goes on, or the rule function that was to be called returns
NextAll ==
    \/ hypotheses.rule = 0 /\ Next
    \/ NextRules

SpecAll == InitAll /\ [][NextAll]_vars

TypeOK ==
    /\ lexicon \in Lexicons \cup RuleLexicons \cup CapLexicons \cup SharedLexicons
    /\ \A p \in Procs :
           pc[p] \in {"idle", "call", "run", "hit", "done", "raised", "found"}

(***************************************************************************)
(* Properties.                                                             *)
(***************************************************************************)
Done(p) == pc[p] = "done"

\* every word of every split of the list splits is in the lexicon
AllInLexicon(splits) ==
    \A n \in 1..Len(splits) : \A w \in Elems(splits[n]) : w \in lexicon

\* C1: every word of the split reverse_sandhi returns, and of every split
\* in a list _find_splits returns or is building (the outermost call's, the
\* memoized ones of the recursive calls, the ones of the calls in progress),
\* is a member of the lexicon.
C1_LexiconContainment ==
    \A p \in Procs :
        /\ (Done(p) /\ ~result[p].isNone) =>
               \A w \in Elems(result[p].value) : w \in lexicon
        /\ AllInLexicon(found[p])
        /\ \A t \in DOMAIN memo : AllInLexicon(memo[t])
        /\ \A n \in 1..Len(stack[p]) : AllInLexicon(stack[p][n].all_splits)

\* a split of two or more words came back, one of several, and some first
\* word that a rule or the prefix loop proposed was not a lexicon word
C1_Witness ==
    \E p \in Procs :
        /\ Done(p) /\ ~result[p].isNone
        /\ Len(result[p].value) >= 2
        /\ Len(found[p]) >= 2
        /\ \E k \in 1..PrefixLoop :
               \E w \in Elems(Pairs(k, Text(p))) : w[1] \notin lexicon
(***************************************************************************)
(* The chains of hypotheses that build a split, and the forward sandhi     *)
(* each hypothesis reverses.                                               *)
(***************************************************************************)
\* the hypotheses _find_splits(text) examines: the whole match as place 0,
\* the pairs of the rules and the prefix loop under their place
Hypotheses(text) ==
    Elems(Tagged(0, << <<text, <<>>>> >>))
    \cup UNION {Elems(Tagged(k, Pairs(k, text))) : k \in 1..PrefixLoop}

RECURSIVE Chains(_, _)
\* the chains that consume text to the empty remainder with the words of
\* split as their first words, each a lexicon word: sequences of steps
\* [text, k, first_word, remainder]
Chains(text, split) ==
    IF split = <<>> THEN (IF text = <<>> THEN {<<>>} ELSE {})
    ELSE IF text = <<>> \/ Head(split) \notin lexicon THEN {}
    ELSE UNION {
        {<<[text |-> text, k |-> h.k, first_word |-> h.first_word,
            remainder |-> h.remainder]>> \o c :
             c \in Chains(h.remainder, Tail(split))} :
        h \in {g \in Hypotheses(text) : g.first_word = Head(split)}}

\* sandhi_map of the forward model, as fused(v1, v2); <<>> where it has no
\* entry
sandhi_map(v1, v2) ==
    IF v1 \in {"a", "A"} /\ v2 \in {"a", "A"} THEN <<"A">>
    ELSE IF v1 \in {"i", "I"} /\ v2 \in {"i", "I"} THEN <<"I">>
    ELSE IF v1 \in {"u", "U"} /\ v2 \in {"u", "U"} THEN <<"U">>
    ELSE IF v1 \in {"a", "A"} /\ v2 \in {"i", "I"} THEN <<"e">>
    ELSE IF v1 \in {"a", "A"} /\ v2 \in {"u", "U"} THEN <<"o">>
    ELSE IF v1 \in {"a", "A"} /\ v2 = "e" THEN <<"a", "i">>
    ELSE IF v1 \in {"a", "A"} /\ v2 = "o" THEN <<"a", "u">>
    ELSE <<>>

\* the vowels of the forward model
forward_vowels ==
    {"a", "A", "i", "I", "u", "U", "e", "E", "o", "O", "R", "RR"}

\* apply_vowel_sandhi([w1, w2]), joined
apply_vowel_sandhi(w1, w2) ==
    IF /\ w1 # <<>> /\ w2 # <<>>
       /\ At(w1, Len(w1) - 1) \in forward_vowels /\ At(w2, 0) \in forward_vowels
       /\ sandhi_map(At(w1, Len(w1) - 1), At(w2, 0)) # <<>>
    THEN Upto(w1, Len(w1) - 1) \o sandhi_map(At(w1, Len(w1) - 1), At(w2, 0))
             \o From(w2, 1)
    ELSE w1 \o w2

\* the forward forms of the avagraha patterns: aH + a -> o', e + a -> e',
\* a + a -> a'
AvagrahaForward(w1, w2) ==
    IF w2 = <<>> \/ At(w2, 0) # "a" \/ w1 = <<>> THEN w1 \o w2
    ELSE IF Len(w1) >= 2 /\ From(w1, Len(w1) - 2) = <<"a", "H">>
    THEN Upto(w1, Len(w1) - 2) \o <<"o", "'">> \o From(w2, 1)
    ELSE IF At(w1, Len(w1) - 1) \in {"e", "a"}
    THEN w1 \o <<"'">> \o From(w2, 1)
    ELSE w1 \o w2

\* the forward forms of yan sandhi: i -> y, u -> v before a vowel
YanForward(w1, w2) ==
    IF w1 = <<>> THEN w2
    ELSE IF At(w1, Len(w1) - 1) = "i" THEN Upto(w1, Len(w1) - 1) \o <<"y">> \o w2
    ELSE IF At(w1, Len(w1) - 1) = "u" THEN Upto(w1, Len(w1) - 1) \o <<"v">> \o w2
    ELSE w1 \o w2

\* the forward forms of a final visarga: it becomes r, or is dropped
VisargaForward(w1, w2) ==
    IF w1 = <<>> \/ At(w1, Len(w1) - 1) # "H" THEN {w1 \o w2}
    ELSE {Upto(w1, Len(w1) - 1) \o <<"r">> \o w2, Upto(w1, Len(w1) - 1) \o w2}

\* the texts the forward transformation that place k reverses makes of
\* first_word followed by remainder
Forward(k, first_word, remainder) ==
    CASE k = 1 -> {AvagrahaForward(first_word, remainder)}
      [] k \in {2, 3, 4} -> {apply_vowel_sandhi(first_word, remainder)}
      [] k = 5 -> {YanForward(first_word, remainder)}
      [] k \in {6, 7} -> VisargaForward(first_word, remainder)
      [] OTHER -> {first_word \o remainder}

\* every step of every chain that builds split from text reverses its
\* forward transformation
RoundTrips(text, split) ==
    \A c \in Chains(text, split) :
        \A n \in 1..Len(c) :
            c[n].text \in Forward(c[n].k, c[n].first_word, c[n].remainder)

\* C2 (as the claim states it): for every split in the list _find_splits
\* returns for a text, re-joining its words left to right with the forward
\* transformation that each producing step reverses reproduces the text.
C2_RoundTrip ==
    \A p \in Procs :
        Done(p) => \A n \in 1..Len(found[p]) : RoundTrips(Text(p), found[p][n])
C4_Deterministic ==
    \A p \in Procs :
        (Done(p) /\ again[p].seen) => result[p] = again[p].result

\* the search of caller p with the memo disabled
Uncached(p) == [Env(p) EXCEPT !.cached = FALSE]

\* C5 (as the claim states it): the list _find_splits returns for a text is
\* the list the same search returns with memoization disabled.
C5_MemoTransparent ==
    \A p \in Procs :
        (Done(p) /\ Text(p) # <<>>) =>
            found[p] = Run(StartConfig(EmptyMemo, Text(p), Uncached(p)),
                           Uncached(p)).found

\* C6: for a non-empty text reverse_sandhi returns None unless some chain
\* of hypotheses consumes the text to the empty remainder; a split that is
\* returned, and every split found, is the sequence of first words of such
\* a chain; nothing is returned for a text of which only a part is consumed.
C6_NoPartialAnswers ==
    \A p \in Procs :
        (Done(p) /\ Text(p) # <<>>) =>
            /\ \A n \in 1..Len(found[p]) : Chains(Text(p), found[p][n]) # {}
            /\ ~result[p].isNone => Chains(Text(p), result[p].value) # {}

\* a search came back with None on a text that begins with a lexicon word
\* and goes on with a fragment no hypothesis consumes
C6_Witness ==
    \E p \in Procs :
        /\ Done(p) /\ result[p] = None
        /\ \E n \in 1..(Len(Text(p)) - 1) : Upto(Text(p), n) \in lexicon

OnlySpaces(l) == \A n \in 1..Len(l) : l[n] = " "

\* C10: reverse_sandhi returns the empty sequence, which is not None, for
\* an empty or space-only line under every lexicon, and _find_splits('')
\* returns exactly one split, the empty sequence.
C10_EmptyLine ==
    \A p \in Procs :
        /\ (Done(p) /\ OnlySpaces(line[p])) =>
               result[p] = Split(<<>>) /\ result[p] # None
        /\ (pc[p] = "found" /\ line[p] = <<>>) => found[p] = << <<>> >>

\* a line of two spaces came back as the empty sequence under the empty
\* lexicon
C10_Witness ==
    \E p \in Procs :
        /\ Done(p) /\ line[p] = <<" ", " ">> /\ lexicon = {}
        /\ result[p] = Split(<<>>)

\* C8 (as the claim states it): every hypothesis (first_word, remainder)
\* that a rule function of the rule list returns has first_word in the
\* lexicon.
C8_EveryRuleChecks ==
    hypotheses.called =>
        \A pair \in Elems(hypotheses.pairs) : pair[1] \in lexicon

\* the rule functions that test word1 against the lexicon, and the ones
\* with an empty body
CheckingRules == {4, 5, 6, 7, 9}
EmptyRules == {8, 10, 11}

\* C8 (amended): every hypothesis the dirgha, yan, visarga-before-voiced,
\* visarga-before-unvoiced and consonant-cluster rule functions return has
\* first_word in the lexicon; the visarga-special, nasal-assimilation and
\* final-vowel rule functions return none; the vrddhi and guna rule
\* functions return only hypotheses whose remainder has a valid
\* continuation, and like the avagraha rule function do not test
\* first_word, which _find_splits tests before it recurses.
C8_CheckingRulesCheck ==
    hypotheses.called =>
        /\ hypotheses.rule \in CheckingRules =>
               \A pair \in Elems(hypotheses.pairs) : pair[1] \in lexicon
        /\ hypotheses.rule \in EmptyRules => hypotheses.pairs = <<>>
        /\ hypotheses.rule \in {2, 3} =>
               \A pair \in Elems(hypotheses.pairs) :
                   HasValidContinuation(pair[2])

\* a rule function that tests word1 returned a hypothesis on a text on
\* which it had a reconstruction to test
C8_Witness ==
    /\ hypotheses.called
    /\ hypotheses.rule \in CheckingRules
    /\ hypotheses.pairs # <<>>
    /\ lexicon # {}

\* the search of caller p with the faulty rule function replaced by one
\* that raises nothing and returns no hypothesis
Silenced(p) == [Env(p) EXCEPT !.faulty = 0, !.silent = faulty]

\* C9: when a rule function raises whenever it is called, no exception
\* leaves reverse_sandhi, and the list _find_splits returns is the list of
\* the same search with that rule function returning no hypothesis: the
\* whole match, the splits of every other rule and the splits of the
\* raw-prefix loop are all in it.
C9_RuleIsolation ==
    \A p \in Procs :
        /\ pc[p] # "raised"
        /\ (Done(p) /\ Text(p) # <<>> /\ faulty # 0) =>
               /\ found[p] = Run(StartConfig(EmptyMemo, Text(p), Silenced(p)),
                                 Silenced(p)).found
               /\ Text(p) \in lexicon => found[p][1] = <<Text(p)>>

\* the rule function that raises had a hypothesis with a lexicon word to
\* give on the text, and the search still found a split of several words
C9_Witness ==
    \E p \in Procs :
        /\ Done(p) /\ faulty # 0
        /\ \E pair \in Elems(sandhi_rules(faulty, Text(p))) : pair[1] \in lexicon
        /\ ~result[p].isNone
        /\ Len(result[p].value) >= 2
\* C11: with the empty lexicon reverse_sandhi returns None for every line
\* that is not empty once its spaces are removed, whatever rule patterns it
\* has, and no exception leaves it: the search rejects every hypothesis and
\* never calls itself.
C11_EmptyLexicon ==
    \A p \in Procs :
        lexicon = {} =>
            /\ pc[p] # "raised"
            /\ (Done(p) /\ Text(p) # <<>>) => result[p] = None /\ found[p] = <<>>
            /\ pc[p] = "run" =>
                   StepKind(Config(p), Env(p)) \in {"extend", "return"}

\* a line with an avagraha, for which a rule function returns a hypothesis
\* under the empty lexicon, came back as None
C11_Witness ==
    \E p \in Procs :
        /\ lexicon = {} /\ Done(p) /\ result[p] = None
        /\ sandhi_rules(1, Text(p)) # <<>>
        /\ Len(Text(p)) >= 3
\* u + "'" + w[1:]
Elided(u, w) == u \o <<"'">> \o From(w, 1)

\* C12: for lexicon words u, ending in e and without an apostrophe, and w,
\* beginning with a, the list _find_splits returns for u + "'" + w[1:] has
\* the split [u, w] in it: the elided a is put back.
C12_AvagrahaElision ==
    \A p \in Procs :
        Done(p) =>
            \A u \in lexicon, w \in lexicon :
                (/\ u # <<>> /\ w # <<>>
                 /\ At(u, Len(u) - 1) = "e" /\ "'" \notin Elems(u)
                 /\ At(w, 0) = "a"
                 /\ Text(p) = Elided(u, w)) =>
                    \E n \in 1..Len(found[p]) : found[p][n] = <<u, w>>

\* the line be'b came back as [be, ab]
C12_Witness ==
    \E p \in Procs :
        /\ Done(p)
        /\ Text(p) = Elided(<<"b", "e">>, <<"a", "b">>)
        /\ {<<"b", "e">>, <<"a", "b">>} \subseteq lexicon
        /\ result[p] = Split(<< <<"b", "e">>, <<"a", "b">> >>)
\* C13 (as the claim states it): every recursive call of _find_splits made
\* from _find_splits(text), from a rule hypothesis or from the raw-prefix
\* loop, is on a remainder strictly shorter than text, so that no chain of
\* calls comes back to a text it is still searching.
C13_ShorterRemainders ==
    \A p \in Procs :
        \A n \in 2..Len(stack[p]) :
            /\ Len(stack[p][n].text) < Len(stack[p][n - 1].text)
            /\ \A m \in 1..(n - 1) : stack[p][m].text # stack[p][n].text
\* s is text[j:] for some j >= from
IsSuffixFrom(s, text, from) ==
    \E j \in from..Len(text) : s = From(text, j)

CuttingRules == {5, 6, 7, 9}

\* the vowels a rule function puts at the head of a remainder
Restarts(k) ==
    CASE k = 1 -> { <<"a">> }
      [] k = 2 -> { <<"i">>, <<"e">>, <<"a", "i">>, <<"u">>, <<"o">>,
                    <<"a", "u">> }
      [] k = 3 -> { <<"i">>, <<"u">> }
      [] k = 4 -> { <<v>> : v \in short_vowels }
      [] OTHER -> {}

RestartLetters == {"a", "i", "u", "e", "o", "R", "L"}

SplitsOf(text) ==
    IF text = <<>> THEN << <<>> >>
    ELSE IF MemoHas(memo, text) THEN memo[text] ELSE <<>>

\* the splits of the text of caller p that start with its first k characters
\* are all there, one for every split of the other characters
PrefixClosedAt(p, k) ==
    LET text == Text(p) IN
        Upto(text, k) \in lexicon =>
            /\ From(text, k) # <<>> => MemoHas(memo, From(text, k))
            /\ \A s \in Elems(SplitsOf(From(text, k))) :
                   <<Upto(text, k)>> \o s \in Elems(found[p])

\* C15 as stated: for every k with 1 <= k <= min(len(text), 15), if text[:k]
\* is in the lexicon then [text[:k]] + s is in _find_splits(text) for every
\* s in _find_splits(text[k:]); in particular text[k:] was searched.
C15_PrefixClosure ==
    \A p \in SeqProcs : Done(p) =>
        \A k \in 1..Min(Len(Text(p)), PrefixCap) : PrefixClosedAt(p, k)

\* C15, amended: the prefix loop stops one short of the cap.  For every k
\* with 1 <= k < min(len(text), 15), and for k = len(text) (the whole-text
\* match), if text[:k] is in the lexicon then text[k:] was searched and
\* [text[:k]] + s is in _find_splits(text) for every s of its list.
C15_PrefixClosureBelowCap ==
    \A p \in SeqProcs : Done(p) =>
        \A k \in (1..(Min(Len(Text(p)), PrefixCap) - 1)) \cup {Len(Text(p))} :
            PrefixClosedAt(p, k)

\* a line longer than the cap was split after its first PrefixCap - 1
\* characters, the longest prefix the loop tries
C15_Witness ==
    \E p \in SeqProcs :
        /\ Done(p)
        /\ Len(Text(p)) >= PrefixCap
        /\ Upto(Text(p), PrefixCap - 1) \in lexicon
        /\ result[p] = Split(<<Upto(Text(p), PrefixCap - 1), From(Text(p), PrefixCap - 1)>>)

\* the splits of the text of caller p that rule k proposes are all there:
\* for every pair the rule returns with a lexicon first word, the remainder
\* was searched and every split of its list follows the first word in a
\* split of the text
RuleClosedAt(p, k) ==
    \A pair \in Elems(sandhi_rules(k, Text(p))) :
        pair[1] \in lexicon =>
            /\ pair[2] # <<>> => MemoHas(memo, pair[2])
            /\ \A s \in Elems(SplitsOf(pair[2])) :
                   <<pair[1]>> \o s \in Elems(found[p])

\* C16: every rule is applied to the text, not the first that matches: for
\* every hypothesis (w, r) a rule returns with w in the lexicon and every
\* split s in _find_splits(r), [w] + s is in _find_splits(text), also when
\* the text is a lexicon word or an earlier rule produced splits.
C16_AllRulesApplied ==
    \A p \in SeqProcs : Done(p) => \A k \in 1..NumRules : RuleClosedAt(p, k)

\* no split is twice in the list splits
EachOnce(splits) ==
    \A i, j \in 1..Len(splits) : splits[i] = splits[j] => i = j

\* C17: the collection _find_splits returns, and stores in the memo under
\* the text, is a set of splits: it holds each distinct word sequence at
\* most once, also when a rule hypothesis and a raw prefix propose the same
\* first word and remainder.
C17_SplitsAreASet ==
    /\ \A p \in SeqProcs : Done(p) => EachOnce(found[p])
    /\ \A t \in DOMAIN memo : EachOnce(memo[t])

\* reverse_sandhi(samhita_line) as one step, in the circumstances e: the
\* value it returns, or Raised when a RecursionError leaves it
Raised == [isNone |-> FALSE, value |-> << <<"RecursionError">> >>]

reverse_sandhi(samhita_line, e) ==
    LET text == Normalize(samhita_line)
        end == Run(StartConfig(EmptyMemo, text, e), e)
    IN  IF text = <<>> THEN Split(<<>>)
        ELSE IF end.status = "done" THEN PickResult(end.found)
        ELSE Raised

\* the characters of l that are not spaces, in their order
Letters(l) == SelectSeq(l, LAMBDA c : c # " ")

\* the lines that differ from l by inserted or deleted spaces only
SpaceVariants(l) == {v \in Lines : Letters(v) = Letters(l)}

\* C18: spacing carries no signal: under every lexicon reverse_sandhi
\* returns, for every variant of the line with spaces inserted or deleted
\* at any positions, the value it returned for the line (both called with
\* the same room on the stack).
C18_SpacingCarriesNoSignal ==
    \A p \in SeqProcs : Done(p) =>
        \A v \in SpaceVariants(line[p]) : reverse_sandhi(v, Env(p)) = result[p]

\* a line with spaces came back as a split of two or more words, and a
\* line with the same letters and fewer spaces is one of the lines
C18_Witness ==
    \E p \in SeqProcs :
        /\ Done(p) /\ ~result[p].isNone /\ Len(result[p].value) >= 2
        /\ " " \in Elems(line[p])
        /\ \E v \in SpaceVariants(line[p]) : Len(v) < Len(line[p])

\* C19: two reverse_sandhi calls for two lines, interleaved at any points
\* on one reverser, each return the value the call returns when run alone
\* (no exception leaves a call), and the lexicon is the one the reverser
\* was made with.
C19_InterleavedAsAlone ==
    \A p \in Procs :
        /\ pc[p] # "raised"
        /\ Done(p) => result[p] = reverse_sandhi(line[p], Env(p))

====
